---- MODULE Spec2Model ----
(***************************************************************************)
(* QunTime.parallel (src/Tensor/QunTime.js): a pool of worker threads that *)
(* run one task each, optionally sharing a one-cell Int32Array register    *)
(* ("entangled mode").  The coordinator (the main thread) is one thread of *)
(* control: the Promise executor with its spawn loop runs to completion    *)
(* before any event handler runs.  Every worker is a thread of its own and *)
(* its Atomics.load / Atomics.store are separate steps.                    *)
(* The text conversions of the repository, NanoTensor (src/Tensor/tensor.js *)
(* and QunTime.js) and Encrypt.morse (src/data/encrypt.js), are operators   *)
(* on sequences of UTF-16 code units, applied by specifications of their   *)
(* own.                                                                    *)
(***************************************************************************)
EXTENDS Integers, Naturals, Sequences, FiniteSets, TLC

\* ------------------------------------------------------------------ bounds
MaxRuns  == 2      \* calls of parallel() in one behaviour
MaxCount == 2      \* largest count passed to parallel()
MaxCalls == 1      \* calls of maybeUpdateShared by one task
MaxLen   == 2      \* length of the texts passed to a conversion

Runs   == 1..MaxRuns
Units  == 1..MaxCount          \* unit u is loop index i = u - 1
Counts == 0..MaxCount

\* ------------------------------------------------- JavaScript numbers
\* An integer-valued JS number n is held as three limbs,
\*   n = top * 2^32 + mid * 2^16 + lo,   0 <= mid, lo < 2^16,
\* because the values the code handles (2^53 - 1, score * 1e6) pass 2^31.
Limb == 65536

Num(top, mid, lo) == [top |-> top, mid |-> mid, lo |-> lo]

\* Number.MAX_SAFE_INTEGER = 2^53 - 1 = (2^21 - 1) * 2^32 + 0xFFFF * 2^16 + 0xFFFF
MAX_SAFE_INTEGER == Num(2097151, 65535, 65535)

\* ToInt32 of ECMAScript: the value modulo 2^32, read as a signed 32-bit
\* integer.  This is the conversion of a store into an Int32Array element.
ToInt32(x) ==
    IF x.mid >= Limb \div 2 THEN (x.mid - Limb) * Limb + x.lo
                            ELSE x.mid * Limb + x.lo

\* x < n for a JS number x and a 32-bit integer n (the value of a load).
FitsInt32(x) ==
    \/ x.top = 0 /\ x.mid < Limb \div 2
    \/ x.top = -1 /\ x.mid >= Limb \div 2

LessThan(x, n) ==
    IF FitsInt32(x) THEN ToInt32(x) < n ELSE x.top < 0

\* A score is the rational num / den, den > 0 (a JS double that holds it
\* exactly or near enough that floor(score * 1e6) is the exact floor).
Score(num, den) == [num |-> num, den |-> den]

SCALE_HI == 15       \* 1e6 = 15 * 2^16 + 16960
SCALE_LO == 16960
SCALE    == SCALE_HI * Limb + SCALE_LO

RECURSIVE Gcd(_, _)
Gcd(a, b) == IF b = 0 THEN a ELSE Gcd(b, a % b)

\* num * k limb by limb, for |num| < 2^15 and 0 < k <= 1e6.
Times(num, k) ==
    LET lo0  == num * (k % Limb)
        mid0 == num * (k \div Limb) + (lo0 \div Limb)
    IN  Num(mid0 \div Limb, mid0 % Limb, lo0 % Limb)

Times1e6(num) == Times(num, SCALE)

FloorDiv(x, den) ==
    LET qt == x.top \div den
        r1 == x.top % den
        qm == (r1 * Limb + x.mid) \div den
        r2 == (r1 * Limb + x.mid) % den
        ql == (r2 * Limb + x.lo) \div den
    IN  Num(qt, qm, ql)      \* r1, r2 < den, so qm, ql < 2^16

\* -x and x - 1 for a JS number x.
NumNeg(x) ==
    IF x.lo # 0 THEN Num(-x.top - 1, Limb - 1 - x.mid, Limb - x.lo)
    ELSE IF x.mid # 0 THEN Num(-x.top - 1, Limb - x.mid, 0)
    ELSE Num(-x.top, 0, 0)

NumPred(x) ==
    IF x.lo # 0 THEN Num(x.top, x.mid, x.lo - 1)
    ELSE IF x.mid # 0 THEN Num(x.top, x.mid - 1, Limb - 1)
    ELSE Num(x.top - 1, Limb - 1, Limb - 1)

\* Mutant of Scaled: Math.trunc where the code has Math.floor.
ScaledTrunc(score) ==
    LET g == Gcd(SCALE, score.den)
    IN  IF score.num >= 0
        THEN FloorDiv(Times(score.num, SCALE \div g), score.den \div g)
        ELSE NumNeg(FloorDiv(Times(-score.num, SCALE \div g), score.den \div g))

\* Math.floor(score * 1e6): the product over the denominator, both divided
\* by what 1e6 and the denominator share, then long division rounding
\* down.  The reduced denominator is below 2^15.
Scaled(score) ==
    LET g == Gcd(SCALE, score.den)
    IN  FloorDiv(Times(score.num, SCALE \div g), score.den \div g)

\* x < y for two JS numbers.
NumLess(x, y) ==
    \/ x.top < y.top
    \/ x.top = y.top /\ x.mid < y.mid
    \/ x.top = y.top /\ x.mid = y.mid /\ x.lo < y.lo

\* ------------------------------------------------------ the task, fn
\* fn is the caller's; what it does is drawn from these sets.
Scores == { Score(21, 1), Score(-2, 1), Score(-3, 1) }
Values == { 1, 2 }

\* startingBest: Infinity, or a register value divided by 1e6.
Infinity      == [finite |-> FALSE, micro |-> 0]
Descaled(n)   == [finite |-> TRUE, micro |-> n]     \* n / 1e6

NULL      == 0                                      \* no buffer
NoData    == [entangled |-> FALSE, sharedBuffer |-> NULL]
NoNum     == Num(0, 0, 0)
NoScore   == Score(0, 1)
NoError   == [kind |-> "none", unit |-> 0]
TaskError(u)  == [kind |-> "task", unit |-> u]      \* the Error fn threw in unit u
SpawnError(u) == [kind |-> "spawn", unit |-> u]     \* the Error new Worker threw

VARIABLES
    entangled,          \* QunTime.entangled
    heap,               \* the SharedArrayBuffers allocated so far: buffer b holds heap[b]
    spawning,           \* the run whose Promise executor is on the stack, or 0
    state,              \* per run: "none", "pending", "fulfilled", "rejected" (the promise)
    value,              \* per run: the array the promise was resolved with
    reason,             \* per run: the error the promise was rejected with
    count,              \* per run: parameter count
    entangledEnabled,   \* per run: const entangledEnabled
    sharedBuffer,       \* per run: let sharedBuffer (NULL when not entangled)
    i,                  \* per run: the loop index
    completed,          \* per run: let completed
    results,            \* per run: const results
    pc,                 \* per unit: where the worker is
    workerData,         \* per unit: the workerData it was created with
    startingBest,       \* per unit: const startingBest
    score,              \* per unit: parameter score of maybeUpdateShared
    scaled,             \* per unit: const scaled, inside maybeUpdateShared
    current,            \* per unit: const current, inside maybeUpdateShared
    result,             \* per unit: const result
    calls,              \* per unit: the calls of maybeUpdateShared fn has made
    published,          \* per run: the scaled candidates the units have passed
                        \* to maybeUpdateShared so far (history)
    text,               \* the text passed to a conversion (NanoTensor, morse)
    encoded,            \* what the conversion returned
    decoded,            \* what the reverse conversion returned for encoded
    conv                \* the conversion under way: whose it is, and the step

coordVars == <<entangled, spawning, state, value, reason, count,
               entangledEnabled, sharedBuffer, i, completed, results>>
unitVars  == <<pc, workerData, startingBest, score, scaled, current, result,
               calls>>
convVars  == <<text, encoded, decoded, conv>>
vars      == <<coordVars, unitVars, heap, published, convVars>>

\* No conversion under way.
NoConv == [by |-> "none", step |-> 0]

\* The state of QunTime before the first call, with room for the units U
\* per run.
InitUnits(U) ==
    /\ entangled = FALSE
    /\ heap = << >>
    /\ spawning = 0
    /\ state = [r \in Runs |-> "none"]
    /\ value = [r \in Runs |-> << >>]
    /\ reason = [r \in Runs |-> NoError]
    /\ count = [r \in Runs |-> 0]
    /\ entangledEnabled = [r \in Runs |-> FALSE]
    /\ sharedBuffer = [r \in Runs |-> NULL]
    /\ i = [r \in Runs |-> 0]
    /\ completed = [r \in Runs |-> 0]
    /\ results = [r \in Runs |-> << >>]
    /\ pc = [r \in Runs |-> [u \in U |-> "none"]]
    /\ workerData = [r \in Runs |-> [u \in U |-> NoData]]
    /\ startingBest = [r \in Runs |-> [u \in U |-> Infinity]]
    /\ score = [r \in Runs |-> [u \in U |-> NoScore]]
    /\ scaled = [r \in Runs |-> [u \in U |-> NoNum]]
    /\ current = [r \in Runs |-> [u \in U |-> 0]]
    /\ result = [r \in Runs |-> [u \in U |-> 0]]
    /\ calls = [r \in Runs |-> [u \in U |-> 0]]
    /\ published = [r \in Runs |-> {}]

\* The state before the first call, no conversion under way.
InitWith(U) ==
    /\ InitUnits(U)
    /\ text = << >>
    /\ encoded = << >>
    /\ decoded = << >>
    /\ conv = NoConv

Init == InitWith(Units)

\* ------------------------------------------------------ the promise
\* resolve(x) and reject(e) of the Promise parallel returns: the first call
\* settles the promise, every later call is ignored.
Resolve(r, x) ==
    IF state[r] = "pending"
    THEN /\ state' = [state EXCEPT ![r] = "fulfilled"]
         /\ value' = [value EXCEPT ![r] = x]
         /\ UNCHANGED reason
    ELSE UNCHANGED <<state, value, reason>>

Reject(r, e) ==
    IF state[r] = "pending"
    THEN /\ state' = [state EXCEPT ![r] = "rejected"]
         /\ reason' = [reason EXCEPT ![r] = e]
         /\ UNCHANGED value
    ELSE UNCHANGED <<state, value, reason>>

\* ------------------------------------------------------ the coordinator
\* QunTime.entangledMode(enable)
entangledMode(enable) ==
    /\ spawning = 0
    /\ entangled' = enable
    /\ UNCHANGED <<convVars, heap, spawning, state, value, reason, count, entangledEnabled,
                   sharedBuffer, i, completed, results, unitVars, published>>

\* new SharedArrayBuffer(4); new Int32Array(..)[0] = Number.MAX_SAFE_INTEGER:
\* the heap with one more buffer, whose cell holds the element conversion
\* of the value assigned.
InitialCell == ToInt32(MAX_SAFE_INTEGER)

Allocate(h) == Append(h, InitialCell)

\* Mutant of NewBuffer: one buffer for the whole process.
NewBufferStatic(h) == 1

\* The buffer a call of parallel gets from new SharedArrayBuffer.
NewBuffer(h) == Len(h) + 1

\* Mutant of Snapshot: the flag is read from a property that is never set.
SnapshotOfNothing == FALSE

\* const entangledEnabled = this.entangled
Snapshot == entangled

\* The argument count of a call that passes none.
Undefined == -1
DefaultCount == 4

\* Mutant of CountParam: no default value, and i < undefined is false.
CountParamNoDefault(arg) == IF arg = Undefined THEN 0 ELSE arg

\* The parameter count = 4: the default value when no argument is passed.
CountParam(arg) == IF arg = Undefined THEN DefaultCount ELSE arg

\* Mutant of LoopTest: the loop runs once more.
LoopTestInclusive(k, n) == k <= n

\* i < count, the test of the spawn loop.
LoopTest(k, n) == k < n

\* QunTime.parallel(fn, n), up to the first test of the loop.
parallel(r, n) ==
    /\ spawning = 0
    /\ state[r] = "none"
    /\ \A q \in Runs : q < r => state[q] # "none"
    /\ state' = [state EXCEPT ![r] = "pending"]
    /\ count' = [count EXCEPT ![r] = n]
    /\ entangledEnabled' = [entangledEnabled EXCEPT ![r] = Snapshot]
    /\ IF Snapshot
       THEN /\ heap' = Allocate(heap)
            /\ sharedBuffer' = [sharedBuffer EXCEPT ![r] = NewBuffer(heap)]
       ELSE UNCHANGED <<heap, sharedBuffer>>
    /\ spawning' = IF LoopTest(0, n) THEN r ELSE 0
    /\ UNCHANGED <<convVars, entangled, value, reason, i, completed, results, unitVars, published>>

\* The workerData of the units of run r.
WorkerData(r) ==
    [entangled    |-> entangledEnabled[r],
     sharedBuffer |-> IF entangledEnabled[r] THEN sharedBuffer[r] ELSE NULL]

\* One turn of the loop: new Worker(...), the two worker.on(...), i++.
Spawn(r) ==
    /\ spawning = r
    /\ LoopTest(i[r], count[r])
    /\ pc' = [pc EXCEPT ![r][i[r] + 1] = "spawned"]
    /\ workerData' = [workerData EXCEPT ![r][i[r] + 1] = WorkerData(r)]
    /\ i' = [i EXCEPT ![r] = i[r] + 1]
    /\ spawning' = IF LoopTest(i[r] + 1, count[r]) THEN r ELSE 0
    /\ UNCHANGED <<convVars, entangled, heap, state, value, reason, count, entangledEnabled,
                   sharedBuffer, completed, results, startingBest, score, scaled,
                   current, result, calls, published>>

\* new Worker(...) throws: the executor ends and the promise is rejected
\* with what was thrown.
SpawnFail(r) ==
    /\ spawning = r
    /\ LoopTest(i[r], count[r])
    /\ Reject(r, SpawnError(i[r] + 1))
    /\ spawning' = 0
    /\ UNCHANGED <<convVars, entangled, heap, count, entangledEnabled, sharedBuffer, i,
                   completed, results, unitVars, published>>

\* ------------------------------------------------------ a worker
\* let sharedArray of the worker script: the buffer its Int32Array views,
\* or NULL.
SharedArrayOf(wd) ==
    IF wd.entangled /\ wd.sharedBuffer # NULL THEN wd.sharedBuffer ELSE NULL

sharedArray(r, u) == SharedArrayOf(workerData[r][u])

\* Mutant of StartingBest: 0 where the code has Infinity.
StartingBestZero(r, u) ==
    IF sharedArray(r, u) # NULL THEN Descaled(heap[sharedArray(r, u)])
                                ELSE Descaled(0)

\* sharedArray ? (Atomics.load(sharedArray, 0) / 1e6) : Infinity
StartingBest(r, u) ==
    IF sharedArray(r, u) # NULL THEN Descaled(heap[sharedArray(r, u)])
                                ELSE Infinity

\* The worker script up to the call of fn: startingBest is read.
Start(r, u) ==
    /\ pc[r][u] = "spawned"
    /\ startingBest' = [startingBest EXCEPT ![r][u] = StartingBest(r, u)]
    /\ pc' = [pc EXCEPT ![r][u] = "fn"]
    /\ UNCHANGED <<convVars, coordVars, heap, workerData, score, scaled, current, result,
                   calls, published>>

\* fn calls maybeUpdateShared(score): up to and including Atomics.load.
\* Without a sharedArray the call returns at once.
Load(r, u, s) ==
    /\ pc[r][u] = "fn"
    /\ calls' = [calls EXCEPT ![r][u] = @ + 1]
    /\ IF sharedArray(r, u) = NULL
       THEN UNCHANGED <<pc, score, scaled, current, published>>
       ELSE /\ score' = [score EXCEPT ![r][u] = s]
            /\ scaled' = [scaled EXCEPT ![r][u] = Scaled(s)]
            /\ current' = [current EXCEPT ![r][u] = heap[sharedArray(r, u)]]
            /\ pc' = [pc EXCEPT ![r][u] = "loaded"]
            /\ published' = [published EXCEPT ![r] = @ \cup {Scaled(s)}]
    /\ UNCHANGED <<convVars, coordVars, heap, workerData, startingBest, result>>

\* Mutant of Store: the unit waits until the register holds again the
\* value it loaded.
StoreWaits(r, u) ==
    /\ pc[r][u] = "loaded"
    /\ heap[sharedArray(r, u)] = current[r][u]
    /\ IF LessThan(scaled[r][u], current[r][u])
       THEN heap' = [heap EXCEPT ![sharedArray(r, u)] = ToInt32(scaled[r][u])]
       ELSE UNCHANGED heap
    /\ score' = [score EXCEPT ![r][u] = NoScore]
    /\ scaled' = [scaled EXCEPT ![r][u] = NoNum]
    /\ current' = [current EXCEPT ![r][u] = 0]
    /\ pc' = [pc EXCEPT ![r][u] = "fn"]
    /\ UNCHANGED <<convVars, coordVars, workerData, startingBest, result, calls, published>>

\* The rest of maybeUpdateShared: the test and Atomics.store, which
\* converts the value stored as an element assignment does.
Store(r, u) ==
    /\ pc[r][u] = "loaded"
    /\ IF LessThan(scaled[r][u], current[r][u])
       THEN heap' = [heap EXCEPT ![sharedArray(r, u)] = ToInt32(scaled[r][u])]
       ELSE UNCHANGED heap
    /\ score' = [score EXCEPT ![r][u] = NoScore]
    /\ scaled' = [scaled EXCEPT ![r][u] = NoNum]
    /\ current' = [current EXCEPT ![r][u] = 0]
    /\ pc' = [pc EXCEPT ![r][u] = "fn"]
    /\ UNCHANGED <<convVars, coordVars, workerData, startingBest, result, calls, published>>

\* fn returns v: parentPort.postMessage(result), and the script ends.
Return(r, u, v) ==
    /\ pc[r][u] = "fn"
    /\ result' = [result EXCEPT ![r][u] = v]
    /\ pc' = [pc EXCEPT ![r][u] = "posted"]
    /\ startingBest' = [startingBest EXCEPT ![r][u] = Infinity]
    /\ calls' = [calls EXCEPT ![r][u] = 0]
    /\ UNCHANGED <<convVars, coordVars, heap, workerData, score, scaled, current, published>>

\* Mutant of Throw: the script catches the exception and runs again.
ThrowRestarts(r, u) ==
    /\ pc[r][u] = "fn"
    /\ pc' = [pc EXCEPT ![r][u] = "spawned"]
    /\ startingBest' = [startingBest EXCEPT ![r][u] = Infinity]
    /\ calls' = [calls EXCEPT ![r][u] = 0]
    /\ UNCHANGED <<convVars, coordVars, heap, workerData, score, scaled, current, result,
                   published>>

\* fn throws: the script ends with an uncaught exception, which the
\* runtime reports to the parent as the worker's 'error' event.
Throw(r, u) ==
    /\ pc[r][u] = "fn"
    /\ pc' = [pc EXCEPT ![r][u] = "threw"]
    /\ startingBest' = [startingBest EXCEPT ![r][u] = Infinity]
    /\ calls' = [calls EXCEPT ![r][u] = 0]
    /\ UNCHANGED <<convVars, coordVars, heap, workerData, score, scaled, current, result,
                   published>>

\* ------------------------------------------------------ the handlers
\* Mutant of AllCompleted: the test is off by one.
AllCompletedOffByOne(c, n) == c = n - 1

\* Mutant of AllCompleted: the test never succeeds.
AllCompletedNever(c, n) == c > n

\* completed === count, after completed++
AllCompleted(c, n) == c = n

\* Mutant of Push: the result is put in front (unshift).
PushFront(rs, x) == <<x>> \o rs

\* Mutant of Push: the result is pushed twice.
PushTwice(rs, x) == Append(Append(rs, x), x)

\* results.push(result)
Push(rs, x) == Append(rs, x)

\* worker.on('message', result => { ... })
OnMessage(r, u) ==
    /\ spawning = 0
    /\ pc[r][u] = "posted"
    /\ results' = [results EXCEPT ![r] = Push(@, result[r][u])]
    /\ completed' = [completed EXCEPT ![r] = @ + 1]
    /\ IF AllCompleted(completed[r] + 1, count[r])
       THEN Resolve(r, Push(results[r], result[r][u]))
       ELSE UNCHANGED <<state, value, reason>>
    /\ pc' = [pc EXCEPT ![r][u] = "reported"]
    /\ UNCHANGED <<convVars, entangled, heap, spawning, count, entangledEnabled, sharedBuffer,
                   i, workerData, startingBest, score, scaled, current, result,
                   calls, published>>

\* Mutant of ErrorListener: a failure ends the run with what has arrived.
ErrorListenerResolves(r, e) == Resolve(r, results[r])

\* Mutant of ErrorListener: the listener does nothing.
ErrorListenerIgnores(r, e) == UNCHANGED <<state, value, reason>>

\* The listener of 'error': reject itself.
ErrorListener(r, e) == Reject(r, e)

\* Mutant of AfterError: the failure of a unit terminates the others.
AfterErrorTerminates(r, u) ==
    [pc EXCEPT ![r] = [w \in DOMAIN pc[r] |->
        IF w = u THEN "failed"
        ELSE IF pc[r][w] \in {"spawned", "fn", "loaded"} THEN "terminated"
        ELSE pc[r][w]]]

\* The units after the 'error' event of unit u is handled: the listener
\* is reject and nothing else, so it touches no worker.
AfterError(r, u) == [pc EXCEPT ![r][u] = "failed"]

\* worker.on('error', reject)
OnError(r, u) ==
    /\ spawning = 0
    /\ pc[r][u] = "threw"
    /\ ErrorListener(r, TaskError(u))
    /\ pc' = AfterError(r, u)
    /\ UNCHANGED <<convVars, entangled, heap, spawning, count, entangledEnabled, sharedBuffer,
                   i, completed, results, workerData, startingBest, score, scaled,
                   current, result, calls, published>>

UnitsOf(r) == DOMAIN pc[r]

\* Every step but a call of parallel, for tasks that call maybeUpdateShared
\* n times at most.
StepsWith(n) ==
    \/ \E enable \in BOOLEAN : entangledMode(enable)
    \/ \E r \in Runs : Spawn(r)
    \/ \E r \in Runs : SpawnFail(r)
    \/ \E r \in Runs : \E u \in UnitsOf(r) : Start(r, u)
    \/ \E r \in Runs : \E u \in UnitsOf(r) : \E s \in Scores :
            calls[r][u] < n /\ Load(r, u, s)
    \/ \E r \in Runs : \E u \in UnitsOf(r) : Store(r, u)
    \/ \E r \in Runs : \E u \in UnitsOf(r) : \E v \in Values : Return(r, u, v)
    \/ \E r \in Runs : \E u \in UnitsOf(r) : Throw(r, u)
    \/ \E r \in Runs : \E u \in UnitsOf(r) : OnMessage(r, u)
    \/ \E r \in Runs : \E u \in UnitsOf(r) : OnError(r, u)

Steps == StepsWith(MaxCalls)

\* One call of parallel, with any count up to MaxCount.
Next ==
    \/ \E n \in Counts : parallel(1, n)
    \/ Steps

Spec == Init /\ [][Next]_vars

\* One call of parallel whose task publishes one score and returns one
\* value, in any interleaving of the units.  Progress is the steps that
\* take the run forward: a turn of the spawn loop, a step of a worker thread
\* towards the end of its script, a listener the event loop calls.  (A call
\* of maybeUpdateShared is the task's choice, so Load is not among them.)
Progress ==
    \/ Spawn(1)
    \/ SpawnFail(1)
    \/ \E u \in UnitsOf(1) : Start(1, u)
    \/ \E u \in UnitsOf(1) : Store(1, u)
    \/ \E u \in UnitsOf(1) : Return(1, u, u)
    \/ \E u \in UnitsOf(1) : Throw(1, u)
    \/ \E u \in UnitsOf(1) : OnMessage(1, u)
    \/ \E u \in UnitsOf(1) : OnError(1, u)

NextLive ==
    \/ ~entangled /\ entangledMode(TRUE)
    \/ \E n \in Counts : parallel(1, n)
    \/ \E u \in UnitsOf(1) : calls[1][u] < MaxCalls /\ Load(1, u, Score(-2 - u, 1))
    \/ Progress

\* The executor runs to its end, the threads are scheduled, every task
\* returns or throws, and the event loop delivers the events that wait.
SpecLive == Init /\ [][NextLive]_vars /\ WF_vars(Progress)

\* Up to MaxRuns calls of parallel, whose runs are in flight together, each
\* with one worker at most, whose task calls maybeUpdateShared once at most.
NextRuns ==
    \/ \E r \in Runs, n \in {0, 1} : parallel(r, n)
    \/ StepsWith(1)

SpecRuns == Init /\ [][NextRuns]_vars

\* ------------------------------------------------------ the default count
\* One call parallel(fn), without a count and with entangled mode off; the
\* task of unit u returns u or throws.
InitDefault == InitWith(1..(DefaultCount + 1))

NextDefault ==
    \/ parallel(1, CountParam(Undefined))
    \/ Spawn(1)
    \/ SpawnFail(1)
    \/ \E u \in UnitsOf(1) : Start(1, u)
    \/ \E u \in UnitsOf(1) : Return(1, u, u)
    \/ \E u \in UnitsOf(1) : Throw(1, u)
    \/ \E u \in UnitsOf(1) : OnMessage(1, u)
    \/ \E u \in UnitsOf(1) : OnError(1, u)

SpecDefault == InitDefault /\ [][NextDefault]_vars

\* ------------------------------------------------------ a late unit
\* An entangled run whose last unit starts when the others have left
\* their tasks; each of the others publishes one score.  Whether a thread
\* starts early or late is the scheduler's choice.
LateUnit == MaxCount + 1

InitLate == InitWith(1..LateUnit)

NextLate ==
    \/ ~entangled /\ entangledMode(TRUE)
    \/ entangled /\ parallel(1, LateUnit)
    \/ Spawn(1)
    \/ \E u \in 1..(LateUnit - 1) : Start(1, u)
    \/ (\A w \in 1..(LateUnit - 1) : pc[1][w] \in {"posted", "reported"})
          /\ Start(1, LateUnit)
    \/ \E u \in 1..(LateUnit - 1) : \E s \in Scores :
            calls[1][u] < MaxCalls /\ Load(1, u, s)
    \/ \E u \in UnitsOf(1) : Store(1, u)
    \/ \E u \in UnitsOf(1) : Return(1, u, 1)
    \/ \E u \in UnitsOf(1) : OnMessage(1, u)

SpecLate == InitLate /\ [][NextLate]_vars

\* ------------------------------------------------------ one unit alone
\* An entangled run of one unit, whose task calls maybeUpdateShared one
\* time after the other with scores of both signs, whole and not, inside
\* and outside the range of the register: 21, -2, -3, 0, -0.0000015,
\* 0.0000015, -1/3, 1/3, -2.5, -2147, -3000, 3000.
SeqScores ==
    { Score(21, 1), Score(-2, 1), Score(-3, 1), Score(0, 1),
      Score(-15, 10000000), Score(15, 10000000), Score(-1, 3), Score(1, 3),
      Score(-5, 2), Score(-2147, 1), Score(-3000, 1), Score(3000, 1) }

NextSeq ==
    \/ ~entangled /\ entangledMode(TRUE)
    \/ entangled /\ parallel(1, 1)
    \/ Spawn(1)
    \/ Start(1, 1)
    \/ \E s \in SeqScores : calls[1][1] < MaxCalls + 1 /\ Load(1, 1, s)
    \/ Store(1, 1)
    \/ Return(1, 1, 1)
    \/ OnMessage(1, 1)

SpecSeq == Init /\ [][NextSeq]_vars

\* ------------------------------------------------------ the example run
\* The run of the doc comment of parallel: entangled mode on, 32 workers,
\* a task that publishes 21 and returns 21.  The 32 workers are alike, so
\* this specification takes one schedule of them: each worker runs when
\* the one before it has ended, and the messages are handled in the same
\* order.
ExampleCount == 32
ExampleValue == 21

InitC9 == InitWith(1..ExampleCount)

InTurn(u, ended) == IF u = 1 THEN TRUE ELSE pc[1][u - 1] \in ended

NextC9 ==
    \/ ~entangled /\ entangledMode(TRUE)
    \/ entangled /\ parallel(1, ExampleCount)
    \/ Spawn(1)
    \/ \E u \in UnitsOf(1) : InTurn(u, {"posted", "reported"}) /\ Start(1, u)
    \/ \E u \in UnitsOf(1) : calls[1][u] = 0 /\ Load(1, u, Score(ExampleValue, 1))
    \/ \E u \in UnitsOf(1) : Store(1, u)
    \/ \E u \in UnitsOf(1) : calls[1][u] = 1 /\ Return(1, u, ExampleValue)
    \/ \E u \in UnitsOf(1) : InTurn(u, {"reported"}) /\ OnMessage(1, u)

SpecC9 == InitC9 /\ [][NextC9]_vars

\* ------------------------------------------------------ strings
\* A string is the sequence of its UTF-16 code units; a binary string is a
\* sequence of the characters "0" and "1".
SPACE == 32

\* The code units String.prototype.trim removes: WhiteSpace and
\* LineTerminator of ECMAScript.
WhiteSpace ==
    {9, 10, 11, 12, 13, 32, 160, 5760, 8232, 8233, 8239, 8287, 12288, 65279}
        \cup (8192..8202)

\* s.padEnd(n, c), s.padStart(n, c), s.slice(0, n), for n >= 0.
PadEnd(s, n, c) ==
    IF Len(s) >= n THEN s ELSE s \o [k \in 1..(n - Len(s)) |-> c]

PadStart(s, n, c) ==
    IF Len(s) >= n THEN s ELSE [k \in 1..(n - Len(s)) |-> c] \o s

Slice(s, n) == SubSeq(s, 1, IF Len(s) < n THEN Len(s) ELSE n)

\* s.trim()
Trim(s) ==
    LET inner == {k \in 1..Len(s) : s[k] \notin WhiteSpace}
    IN  IF inner = {} THEN << >>
        ELSE SubSeq(s, CHOOSE k \in inner : \A j \in inner : k <= j,
                       CHOOSE k \in inner : \A j \in inner : k >= j)

\* parts.join("")
RECURSIVE Join(_)
Join(parts) == IF parts = << >> THEN << >> ELSE Head(parts) \o Join(Tail(parts))

\* code.toString(2)
RECURSIVE ToBinary(_)
ToBinary(code) ==
    IF code < 2 THEN << IF code = 1 THEN "1" ELSE "0" >>
    ELSE ToBinary(code \div 2) \o << IF code % 2 = 1 THEN "1" ELSE "0" >>

\* parseInt(b, 2), for a non-empty binary string.
RECURSIVE ParseInt2(_)
ParseInt2(b) ==
    IF b = << >> THEN 0
    ELSE 2 * ParseInt2(SubSeq(b, 1, Len(b) - 1)) + (IF b[Len(b)] = "1" THEN 1 ELSE 0)

\* String.fromCharCode(n): the code unit n modulo 2^16.
FromCharCode(n) == n % Limb

\* s.split(""): one element per code unit.
Split(s) == [k \in 1..Len(s) |-> << s[k] >>]

\* Array.from(s): one element per code point, so a high surrogate and the
\* low surrogate after it are one element.
RECURSIVE ArrayFrom(_)
ArrayFrom(s) ==
    IF s = << >> THEN << >>
    ELSE IF Len(s) >= 2 /\ s[1] \in 55296..56319 /\ s[2] \in 56320..57343
         THEN << SubSeq(s, 1, 2) >> \o ArrayFrom(SubSeq(s, 3, Len(s)))
         ELSE << SubSeq(s, 1, 1) >> \o ArrayFrom(Tail(s))

\* bin.match(new RegExp(`.{1,${n}}`, "g")) || []
RECURSIVE Chunks(_, _)
Chunks(bin, n) ==
    IF bin = << >> THEN << >>
    ELSE << Slice(bin, n) >> \o Chunks(SubSeq(bin, n + 1, Len(bin)), n)

\* ------------------------------------------------------ NanoTensor
\* The two NanoTensor: the object of tensor.js, with 8 bits per character,
\* and the class of QunTime.js, with 16.
BITS_PER_CHAR == 8
MAX_CHARS == 16
TOTAL_BITS == BITS_PER_CHAR * MAX_CHARS

NanoTensor_BITS_PER_CHAR == 16
NanoTensor_MAX_CHARS == 16
NanoTensor_TOTAL_BITS == NanoTensor_BITS_PER_CHAR * NanoTensor_MAX_CHARS

\* chars.map(c => c.charCodeAt(0).toString(2).padStart(perChar, "0"))
\*      .join("").padEnd(bits, "0").slice(0, bits).split("").map(Number)
BitsOf(chars, perChar, bits) ==
    LET binary == Join([k \in 1..Len(chars) |->
                          PadStart(ToBinary(chars[k][1]), perChar, "0")])
        cut    == Slice(PadEnd(binary, bits, "0"), bits)
    IN  [k \in 1..Len(cut) |-> IF cut[k] = "1" THEN 1 ELSE 0]

\* tensor.map(n => Number(n) > 0.5 ? "1" : "0").join("").padEnd(bits, "0")
\*       .slice(0, bits), cut in chunks of perChar, each chunk a character,
\* joined and trimmed.
TextOf(tensor, perChar, bits) ==
    LET bin    == Slice(PadEnd([k \in 1..Len(tensor) |->
                                   IF tensor[k] >= 1 THEN "1" ELSE "0"],
                               bits, "0"), bits)
        chars  == Chunks(bin, perChar)
    IN  Trim([k \in 1..Len(chars) |-> FromCharCode(ParseInt2(chars[k]))])

\* NanoTensor.TextToTensor and NanoTensor.TensorToText of tensor.js
TextToTensor(t, bits) ==
    BitsOf(Split(Slice(PadEnd(t, MAX_CHARS, SPACE), MAX_CHARS)), BITS_PER_CHAR, bits)

TensorToText(tensor, bits) == TextOf(tensor, BITS_PER_CHAR, bits)

\* NanoTensor.textToTensor and NanoTensor.tensorToText of QunTime.js
textToTensor(t, bits) ==
    BitsOf(ArrayFrom(Slice(PadEnd(t, NanoTensor_MAX_CHARS, SPACE), NanoTensor_MAX_CHARS)),
           NanoTensor_BITS_PER_CHAR, bits)

tensorToText(tensor, bits) == TextOf(tensor, NanoTensor_BITS_PER_CHAR, bits)

\* The texts converted: up to MaxLen code units, and one of MAX_CHARS, of
\* NUL, A, y-diaeresis (255), A-macron (256), alef (1575), the two
\* surrogates of U+1F600, 65535, and the space, none with white space at
\* either end.
TensorUnits == {0, 65, 255, 256, 1575, 55357, 56832, 65535, SPACE}

NoOuterSpace(t) == t = << >> \/ (t[1] \notin WhiteSpace /\ t[Len(t)] \notin WhiteSpace)

TensorTexts ==
    { t \in UNION {[1..n -> TensorUnits] : n \in 0..MaxLen} : NoOuterSpace(t) }
        \cup { [k \in 1..MAX_CHARS |-> 65] }

InitTensor ==
    /\ InitUnits(Units)
    /\ text \in TensorTexts
    /\ encoded = << >>
    /\ decoded = << >>
    /\ conv = NoConv

\* A call of a conversion with the default bits, and of its reverse on
\* what was returned.
TextToTensorCall ==
    /\ conv = NoConv
    /\ encoded' = TextToTensor(text, TOTAL_BITS)
    /\ conv' = [by |-> "tensor.js", step |-> 1]
    /\ UNCHANGED <<coordVars, unitVars, heap, published, text, decoded>>

TensorToTextCall ==
    /\ conv = [by |-> "tensor.js", step |-> 1]
    /\ decoded' = TensorToText(encoded, TOTAL_BITS)
    /\ conv' = [by |-> "tensor.js", step |-> 2]
    /\ UNCHANGED <<coordVars, unitVars, heap, published, text, encoded>>

textToTensorCall ==
    /\ conv = NoConv
    /\ encoded' = textToTensor(text, NanoTensor_TOTAL_BITS)
    /\ conv' = [by |-> "QunTime.js", step |-> 1]
    /\ UNCHANGED <<coordVars, unitVars, heap, published, text, decoded>>

tensorToTextCall ==
    /\ conv = [by |-> "QunTime.js", step |-> 1]
    /\ decoded' = tensorToText(encoded, NanoTensor_TOTAL_BITS)
    /\ conv' = [by |-> "QunTime.js", step |-> 2]
    /\ UNCHANGED <<coordVars, unitVars, heap, published, text, encoded>>

NextTensor ==
    \/ TextToTensorCall
    \/ TensorToTextCall
    \/ textToTensorCall
    \/ tensorToTextCall

SpecTensor == InitTensor /\ [][NextTensor]_vars

\* ------------------------------------------------------ Encrypt.morse
DOT  == 46
DASH == 45

\* const pattle, as the list of its entries (key, code) in the order of
\* Object.keys: the digit keys in ascending order, then the others as
\* written.
pattle ==
    <<
       <<48, <<DASH, DASH, DASH, DASH, DASH>>>>,          \* 0
       <<49, <<DOT, DASH, DASH, DASH, DASH>>>>,           \* 1
       <<50, <<DOT, DOT, DASH, DASH, DASH>>>>,            \* 2
       <<51, <<DOT, DOT, DOT, DASH, DASH>>>>,             \* 3
       <<52, <<DOT, DOT, DOT, DOT, DASH>>>>,              \* 4
       <<53, <<DOT, DOT, DOT, DOT, DOT>>>>,               \* 5
       <<54, <<DASH, DOT, DOT, DOT, DOT>>>>,              \* 6
       <<55, <<DASH, DASH, DOT, DOT, DOT>>>>,             \* 7
       <<56, <<DASH, DASH, DASH, DOT, DOT>>>>,            \* 8
       <<57, <<DASH, DASH, DASH, DASH, DOT>>>>,           \* 9
       <<65, <<DOT, DASH>>>>,                             \* A
       <<66, <<DASH, DOT, DOT, DOT>>>>,                   \* B
       <<67, <<DASH, DOT, DASH, DOT>>>>,                  \* C
       <<68, <<DASH, DOT, DOT>>>>,                        \* D
       <<69, <<DOT>>>>,                                   \* E
       <<70, <<DOT, DOT, DASH, DOT>>>>,                   \* F
       <<71, <<DASH, DASH, DOT>>>>,                       \* G
       <<72, <<DOT, DOT, DOT, DOT>>>>,                    \* H
       <<73, <<DOT, DOT>>>>,                              \* I
       <<74, <<DOT, DASH, DASH, DASH>>>>,                 \* J
       <<75, <<DASH, DOT, DASH>>>>,                       \* K
       <<76, <<DOT, DASH, DOT, DOT>>>>,                   \* L
       <<77, <<DASH, DASH>>>>,                            \* M
       <<78, <<DASH, DOT>>>>,                             \* N
       <<79, <<DASH, DASH, DASH>>>>,                      \* O
       <<80, <<DOT, DASH, DASH, DOT>>>>,                  \* P
       <<81, <<DASH, DASH, DOT, DASH>>>>,                 \* Q
       <<82, <<DOT, DASH, DOT>>>>,                        \* R
       <<83, <<DOT, DOT, DOT>>>>,                         \* S
       <<84, <<DASH>>>>,                                  \* T
       <<85, <<DOT, DOT, DASH>>>>,                        \* U
       <<86, <<DOT, DOT, DOT, DASH>>>>,                   \* V
       <<87, <<DOT, DASH, DASH>>>>,                       \* W
       <<88, <<DASH, DOT, DOT, DASH>>>>,                  \* X
       <<89, <<DASH, DOT, DASH, DASH>>>>,                 \* Y
       <<90, <<DASH, DASH, DOT, DOT>>>>,                  \* Z
       <<46, <<DOT, DASH, DOT, DASH, DOT, DASH>>>>,       \* .
       <<44, <<DASH, DASH, DOT, DOT, DASH, DASH>>>>,      \* ,
       <<63, <<DOT, DOT, DASH, DASH, DOT, DOT>>>>,        \* ?
       <<39, <<DOT, DASH, DASH, DASH, DASH, DOT>>>>,      \* '
       <<33, <<DASH, DOT, DASH, DOT, DASH, DASH>>>>,      \* !
       <<47, <<DASH, DOT, DOT, DASH, DOT>>>>,             \* /
       <<40, <<DASH, DOT, DASH, DASH, DOT>>>>,            \* (
       <<41, <<DASH, DOT, DASH, DASH, DOT, DASH>>>>,      \* )
       <<38, <<DOT, DASH, DOT, DOT, DOT>>>>,              \* &
       <<58, <<DASH, DASH, DASH, DOT, DOT, DOT>>>>,       \* :
       <<59, <<DASH, DOT, DASH, DOT, DASH, DOT>>>>,       \* ;
       <<61, <<DASH, DOT, DOT, DOT, DASH>>>>,             \* =
       <<43, <<DOT, DASH, DOT, DASH, DOT>>>>,             \* +
       <<45, <<DASH, DOT, DOT, DOT, DOT, DASH>>>>,        \* -
       <<95, <<DOT, DOT, DASH, DASH, DOT, DASH>>>>,       \* _
       <<36, <<DOT, DOT, DOT, DASH, DOT, DOT, DASH>>>>,   \* $
       <<64, <<DOT, DASH, DASH, DOT, DASH, DOT>>>>        \* @
    >>

\* The entries of pattle with key c (pattle[char]), and with code m.
EntriesOfKey(c)  == {k \in 1..Len(pattle) : pattle[k][1] = c}
EntriesOfCode(m) == {k \in 1..Len(pattle) : pattle[k][2] = m}

\* char.toUpperCase(), for a code unit below 128.
ToUpperCase(c) == IF c \in 97..122 THEN c - 32 ELSE c

\* s.split(" ")
RECURSIVE SplitOnSpace(_)
SplitOnSpace(s) ==
    LET at == {k \in 1..Len(s) : s[k] = SPACE}
    IN  IF at = {} THEN << s >>
        ELSE LET k == CHOOSE j \in at : \A h \in at : j <= h
             IN  << SubSeq(s, 1, k - 1) >> \o SplitOnSpace(SubSeq(s, k + 1, Len(s)))

\* Mutant of MorseOfChar: a character without a code is left out.
MorseOfCharOrNothing(char) ==
    IF EntriesOfKey(char) # {}
    THEN pattle[CHOOSE k \in EntriesOfKey(char) : TRUE][2] \o << SPACE >>
    ELSE << >>

\* What the loop of the forward direction adds for char: its code and a
\* space, or a space for a character that has no code.
MorseOfChar(char) ==
    IF EntriesOfKey(char) # {}
    THEN pattle[CHOOSE k \in EntriesOfKey(char) : TRUE][2] \o << SPACE >>
    ELSE << SPACE >>

\* What the loop of the reverse direction adds for code: the first key
\* that has this code, or a space.
CharOfMorse(code) ==
    IF EntriesOfCode(code) # {}
    THEN << pattle[CHOOSE k \in EntriesOfCode(code) :
                     \A j \in EntriesOfCode(code) : k <= j][1] >>
    ELSE << SPACE >>

\* morse(text, reverse)
morse(t, reverse) ==
    IF reverse
    THEN LET morseArray == SplitOnSpace(Trim(t))
         IN  Join([k \in 1..Len(morseArray) |-> CharOfMorse(morseArray[k])])
    ELSE Trim(Join([k \in 1..Len(t) |-> MorseOfChar(ToUpperCase(t[k]))]))

\* The texts encoded: every character of the table alone, and the texts
\* of up to MaxLen + 2 characters of A, E, T, 0, full stop, hyphen, dollar
\* and the space that do not begin or end with a space.
MorseKeys  == {pattle[k][1] : k \in 1..Len(pattle)}
MorseChars == {65, 69, 84, 48, DOT, DASH, 36, SPACE}

MorseTexts ==
    { << c >> : c \in MorseKeys } \cup
    { t \in UNION {[1..n -> MorseChars] : n \in 1..(MaxLen + 2)} :
        t[1] # SPACE /\ t[Len(t)] # SPACE }

InitMorse ==
    /\ InitUnits(Units)
    /\ text \in MorseTexts
    /\ encoded = << >>
    /\ decoded = << >>
    /\ conv = NoConv

\* morse(text), and morse(.., true) of what it returned.
morseCall ==
    /\ conv = NoConv
    /\ encoded' = morse(text, FALSE)
    /\ conv' = [by |-> "encrypt.js", step |-> 1]
    /\ UNCHANGED <<coordVars, unitVars, heap, published, text, decoded>>

morseReverseCall ==
    /\ conv = [by |-> "encrypt.js", step |-> 1]
    /\ decoded' = morse(encoded, TRUE)
    /\ conv' = [by |-> "encrypt.js", step |-> 2]
    /\ UNCHANGED <<coordVars, unitVars, heap, published, text, encoded>>

NextMorse ==
    \/ morseCall
    \/ morseReverseCall

SpecMorse == InitMorse /\ [][NextMorse]_vars

\* ------------------------------------------------------ the claims
Launched(r)   == state[r] # "none"
Entangled(r)  == Launched(r) /\ entangledEnabled[r]
Running(r, u) == pc[r][u] \in {"fn", "loaded"}
Ended(r, u)   == pc[r][u] \in {"posted", "threw", "reported", "failed"}
Register(r)   == heap[sharedBuffer[r]]

\* The largest value of an Int32Array element.
INT32_MAX == 2147483647

\* The least of a non-empty set of JS numbers.
MinNum(S) == CHOOSE x \in S : \A y \in S : ~NumLess(y, x)

\* Every unit of run r has been created and its script has ended.
AllUnitsEnded(r) ==
    /\ Launched(r) /\ spawning # r
    /\ count[r] >= 1 /\ i[r] = count[r]
    /\ \A u \in 1..count[r] : Ended(r, u)

\* C1: in an entangled run, once all units have ended, the register holds
\* the minimum of the scaled candidates that were passed to
\* maybeUpdateShared, whatever the interleaving.
C1_FinalIsMinimum ==
    \A r \in Runs :
        (Entangled(r) /\ AllUnitsEnded(r) /\ published[r] # {}) =>
            /\ FitsInt32(MinNum(published[r]))
            /\ Register(r) = ToInt32(MinNum(published[r]))

\* C2: no step ever replaces the value of a register by a larger one.
C2_RegisterNeverIncreases ==
    [][\A b \in 1..Len(heap) : heap'[b] <= heap[b]]_vars

\* C3: a run is resolved only when all its count >= 1 units have reported,
\* and with exactly count entries that are a permutation of the units'
\* return values.
C3_ResolvedWithAllResults ==
    \A r \in Runs :
        state[r] = "fulfilled" =>
            /\ count[r] >= 1
            /\ \A u \in 1..count[r] : pc[r][u] = "reported"
            /\ Len(value[r]) = count[r]
            /\ \E p \in Permutations(1..count[r]) :
                   \A k \in 1..count[r] : value[r][k] = result[r][p[k]]

\* Two units returned 1 and 2, the second reported first.
C3_Witness ==
    \E r \in Runs :
        /\ state[r] = "fulfilled" /\ count[r] = 2
        /\ result[r][1] = 1 /\ result[r][2] = 2
        /\ value[r] = <<2, 1>>

\* C4: a run in which the task of some unit raised is never resolved with
\* a sequence of results.
C4_NoResultsAfterFailure ==
    \A r \in Runs : \A u \in UnitsOf(r) :
        pc[r][u] \in {"threw", "failed"} => state[r] # "fulfilled"

\* One unit has reported its result, then the failure of the other was seen.
C4_Witness ==
    \E r \in Runs :
        /\ count[r] = 2 /\ pc[r][1] = "reported" /\ pc[r][2] = "failed"
        /\ results[r] # << >> /\ state[r] = "rejected"

\* C5: the outcome is settled once; the failure of a unit observed while
\* the run is pending rejects the run with that very error, and no later
\* completion or failure changes a settled outcome; a rejected run carries
\* no results.
C5_FirstFailureSettles ==
    [][\A r \in Runs :
          /\ state[r] \in {"fulfilled", "rejected"} =>
                /\ state'[r] = state[r]
                /\ reason'[r] = reason[r]
                /\ value'[r] = value[r]
          /\ \A u \in UnitsOf(r) :
                (state[r] = "pending" /\ pc[r][u] = "threw" /\ pc'[r][u] = "failed")
                    => (state'[r] = "rejected" /\ reason'[r] = TaskError(u))
          /\ state'[r] = "rejected" => value'[r] = << >>
      ]_vars

\* Both units failed; the failure of unit 2 was seen first and stands.
C5_Witness ==
    \E r \in Runs :
        /\ pc[r][1] = "failed" /\ pc[r][2] = "failed"
        /\ state[r] = "rejected" /\ reason[r] = TaskError(2)

\* C6: in a run launched with entangled mode off, every unit gets
\* startingBest = Infinity and has no register: a call of
\* maybeUpdateShared returns before its load, and nothing is published.
C6_NotEntangled ==
    \A r \in Runs :
        (Launched(r) /\ ~entangledEnabled[r]) =>
            /\ sharedBuffer[r] = NULL
            /\ published[r] = {}
            /\ \A u \in UnitsOf(r) :
                  /\ pc[r][u] # "none" => sharedArray(r, u) = NULL
                  /\ pc[r][u] # "loaded"
                  /\ Running(r, u) => startingBest[r][u] = Infinity

\* A unit of a run that is not entangled has called maybeUpdateShared,
\* while an entangled run in flight has changed its register.
C6_Witness ==
    \E r, q \in Runs :
        /\ Launched(r) /\ ~entangledEnabled[r]
        /\ \E u \in UnitsOf(r) : pc[r][u] = "fn" /\ calls[r][u] > 0
        /\ Entangled(q) /\ Register(q) # InitialCell
        /\ \E u \in UnitsOf(q) : Running(q, u)

\* C7: a run takes the value of the flag at its call of parallel, and
\* keeps it: no later step, entangledMode included, changes the mode of a
\* launched run, its buffer, or what its units were given.
C7_ModeIsSnapshot ==
    [][\A r \in Runs :
          /\ (~Launched(r) /\ state'[r] # "none") =>
                /\ entangledEnabled'[r] = entangled
                /\ (sharedBuffer'[r] # NULL) = entangled
          /\ Launched(r) =>
                /\ entangledEnabled'[r] = entangledEnabled[r]
                /\ sharedBuffer'[r] = sharedBuffer[r]
                /\ \A u \in UnitsOf(r) :
                      pc[r][u] # "none" => workerData'[r][u] = workerData[r][u]
          /\ \A u \in UnitsOf(r) :
                pc'[r][u] # "none" =>
                    (SharedArrayOf(workerData'[r][u]) # NULL) = entangledEnabled'[r]
      ]_vars

\* Run 1 was launched entangled and is in flight with its register, the
\* flag was turned off, and run 2 was launched not entangled.
C7_Witness ==
    /\ Entangled(1) /\ Running(1, 1) /\ sharedArray(1, 1) # NULL
    /\ ~entangled
    /\ Launched(2) /\ ~entangledEnabled[2] /\ sharedBuffer[2] = NULL

\* C8: the register of an entangled run starts at the largest value of
\* its integer type: as long as no candidate has been passed to
\* maybeUpdateShared it holds INT32_MAX.
C8_InitialIsMax ==
    \A r \in Runs :
        (Entangled(r) /\ published[r] = {}) => Register(r) = INT32_MAX

\* C9: the example run resolves with 32 entries equal to 21, and its
\* register then holds 21 scaled, 21000000.
C9_ExampleRun ==
    state[1] = "fulfilled" =>
        /\ value[1] = [k \in 1..ExampleCount |-> ExampleValue]
        /\ Register(1) = ToInt32(Scaled(Score(ExampleValue, 1)))

\* The values the units of run r can have put into a register.
Own(r) == {InitialCell} \cup {ToInt32(c) : c \in published[r]}

\* C10: every entangled run has one buffer of its own, which its units and
\* no others view: the buffers of two runs differ, there are as many
\* buffers as entangled runs, and the register of a run and the
\* startingBest of its units hold only the initial value or a candidate of
\* that run.
C10_RegisterPerRun ==
    /\ Len(heap) = Cardinality({r \in Runs : Entangled(r)})
    /\ \A r \in Runs :
          Entangled(r) =>
              /\ sharedBuffer[r] \in 1..Len(heap)
              /\ \A q \in Runs \ {r} : sharedBuffer[q] # sharedBuffer[r]
              /\ Register(r) \in Own(r)
              /\ \A u \in UnitsOf(r) :
                    /\ pc[r][u] # "none" => sharedArray(r, u) = sharedBuffer[r]
                    /\ Running(r, u) =>
                          /\ startingBest[r][u].finite
                          /\ startingBest[r][u].micro \in Own(r)

\* Two entangled runs in flight: a unit of run 1 has lowered the register
\* of run 1, and the unit of run 2 sees the initial value in its own.
C10_Witness ==
    /\ Entangled(1) /\ Entangled(2)
    /\ pc[1][1] = "fn" /\ Register(1) # InitialCell
    /\ pc[2][1] = "fn" /\ startingBest[2][1] = Descaled(InitialCell)
    /\ Register(2) = InitialCell

\* C11: a run of one unit or more whose tasks all end is settled in the end;
\* the listener of the last message fulfils a run that is pending, and the
\* listener of a failure rejects a run that is pending, whatever the other
\* units are doing; a settled run stays as it is.
C11_Settles ==
    /\ \A r \in Runs :
          (state[r] = "pending" /\ count[r] >= 1) ~> (state[r] \in {"fulfilled", "rejected"})
    /\ [][\A r \in Runs :
            /\ \A u \in UnitsOf(r) :
                  /\ (state[r] = "pending" /\ pc[r][u] = "threw" /\ pc'[r][u] = "failed")
                        => state'[r] = "rejected"
                  /\ (state[r] = "pending" /\ pc[r][u] = "posted" /\ pc'[r][u] = "reported")
                        => (state'[r] = "fulfilled") = (completed'[r] = count[r])
            /\ state[r] \in {"fulfilled", "rejected"}
                  => /\ state'[r] = state[r]
                     /\ value'[r] = value[r]
                     /\ reason'[r] = reason[r]
        ]_vars

\* A run rejected by the failure of one unit while another is inside its task.
C11_Witness ==
    \E r \in Runs : \E u, w \in UnitsOf(r) :
        /\ state[r] = "rejected" /\ reason[r] = TaskError(u)
        /\ pc[r][u] = "failed" /\ pc[r][w] = "loaded"

\* C12: the listener of a message puts the unit's value after the values
\* of the units that reported before it, whatever their place in the spawn
\* order, and leaves those as they are; the run is fulfilled with the list
\* in that order, whose length is count.
C12_CompletionOrder ==
    [][\A r \in Runs : \A u \in UnitsOf(r) :
            (pc[r][u] = "posted" /\ pc'[r][u] = "reported") =>
                /\ Len(results'[r]) = Len(results[r]) + 1
                /\ \A k \in 1..Len(results[r]) : results'[r][k] = results[r][k]
                /\ results'[r][Len(results'[r])] = result[r][u]
                /\ (state[r] = "pending" /\ state'[r] = "fulfilled") =>
                        value'[r] = results'[r] /\ Len(value'[r]) = count[r]
      ]_vars

\* The unit spawned second has reported first: its value is the first
\* entry, and the unit spawned first is still inside its task.
C12_Witness ==
    \E r \in Runs :
        /\ count[r] = 2 /\ pc[r][1] = "fn" /\ pc[r][2] = "reported"
        /\ results[r] = <<result[r][2]>>

\* C13: a run in which new Worker threw is rejected with what was thrown,
\* and none of its units runs its task: the units created before the
\* failure, if any, have not entered the task and never do.
C13_SpawnFailureBeforeAnyUnit ==
    \A r \in Runs :
        reason[r].kind = "spawn" =>
            /\ state[r] = "rejected"
            /\ \A u \in UnitsOf(r) : pc[r][u] \in {"none", "spawned"}

\* Math.trunc(score * 1e6): the scaled value of -score, negated, for a
\* score below 0.
Truncated(s) ==
    IF s.num >= 0 THEN Scaled(s) ELSE NumNeg(Scaled(Score(-s.num, s.den)))

\* score * 1e6 is a whole number.
Whole(s) == s.num % (s.den \div Gcd(SCALE, s.den)) = 0

\* C14: the scaled value maybeUpdateShared compares is score * 1e6 with
\* its fraction cut off, towards zero, for scores of either sign.
C14_TruncatesTowardZero ==
    \A r \in Runs : \A u \in UnitsOf(r) :
        pc[r][u] = "loaded" => scaled[r][u] = Truncated(score[r][u])

\* C14, amended: the scaled value is score * 1e6 rounded down: the
\* truncated value for a score that is not negative or whose product is
\* whole, and one less than the truncated value for any other score.
C14_RoundsDown ==
    \A r \in Runs : \A u \in UnitsOf(r) :
        pc[r][u] = "loaded" =>
            scaled[r][u] = IF score[r][u].num >= 0 \/ Whole(score[r][u])
                           THEN Truncated(score[r][u])
                           ELSE NumPred(Truncated(score[r][u]))

\* maybeUpdateShared(-0.0000015) has computed scaled, which is -2.
C14_Witness ==
    /\ pc[1][1] = "loaded"
    /\ score[1][1] = Score(-15, 10000000)
    /\ scaled[1][1] = Num(-1, Limb - 1, Limb - 2)

\* The JS number of a register value.
IntNum(n) == Num(IF n < 0 THEN -1 ELSE 0, (n \div Limb) % Limb, n % Limb)

\* C15: between the calls of a unit that runs alone, the register holds
\* the least of its first value and the scaled scores passed so far, so
\* the order of the calls does not matter and a repeated call changes
\* nothing.
C15_SequentialMin ==
    (Entangled(1) /\ count[1] = 1 /\ pc[1][1] = "fn") =>
        Register(1) = ToInt32(MinNum({IntNum(InitialCell)} \cup published[1]))
          /\ FitsInt32(MinNum({IntNum(InitialCell)} \cup published[1]))

\* C16: a call without a count has count 4: once the spawn loop has ended
\* without a failure of new Worker, the units spawned are four, and a run
\* that is fulfilled is fulfilled with four results.
C16_DefaultCount ==
    Launched(1) =>
        /\ count[1] = 4
        /\ Cardinality({u \in UnitsOf(1) : pc[1][u] # "none"}) <= 4
        /\ (spawning = 0 /\ reason[1].kind # "spawn") =>
                Cardinality({u \in UnitsOf(1) : pc[1][u] # "none"}) = 4
        /\ state[1] = "fulfilled" => Len(value[1]) = 4

\* A call without a count, fulfilled, the unit spawned last reporting first.
C16_Witness ==
    /\ state[1] = "fulfilled" /\ Len(value[1]) = 4 /\ value[1][1] = 4
    /\ \A u \in 1..4 : pc[1][u] = "reported"

\* The steps of a unit: created, fn entered, maybeUpdateShared entered and
\* left, fn left by a return or an exception, the event handled.
UnitSteps ==
    { <<"none", "spawned">>, <<"spawned", "fn">>, <<"fn", "loaded">>,
      <<"loaded", "fn">>, <<"fn", "posted">>, <<"fn", "threw">>,
      <<"posted", "reported">>, <<"threw", "failed">> }

\* The units of run r created so far.
Spawned(r) == {u \in UnitsOf(r) : pc[r][u] # "none"}

\* C17: a unit enters fn once, from the start of its script, and leaves it
\* once, by one message or by one failure, which is handled once; after
\* that it does nothing, a failed one included.  The units created are
\* the first i, never more than count, and count when the loop has ended
\* without a failure of new Worker; completed counts the messages handled.
C17_OncePerUnit ==
    [][\A r \in Runs :
            /\ \A u \in UnitsOf(r) :
                  pc'[r][u] # pc[r][u] => <<pc[r][u], pc'[r][u]>> \in UnitSteps
            /\ Spawned(r)' = 1..i'[r]
            /\ i'[r] <= count'[r]
            /\ (Launched(r)' /\ spawning' # r /\ reason'[r].kind # "spawn")
                  => i'[r] = count'[r]
            /\ completed'[r] = Cardinality({u \in UnitsOf(r) : pc'[r][u] = "reported"})
      ]_vars

\* Both units have run their task once: one failed, the other reported.
C17_Witness ==
    \E r \in Runs :
        /\ count[r] = 2 /\ pc[r][1] = "failed" /\ pc[r][2] = "reported"
        /\ completed[r] = 1 /\ Len(results[r]) = 1

\* In an entangled run, the startingBest of a unit is the value the
\* register holds at the step that starts the unit, over 1e6, and no step
\* taken while the unit is inside its task changes it.
StartingBestLoadedOnce ==
    [][\A r \in Runs : \A u \in UnitsOf(r) :
            Entangled(r) =>
                /\ (pc[r][u] = "spawned" /\ pc'[r][u] = "fn")
                      => startingBest'[r][u] = Descaled(Register(r))
                /\ (Running(r, u) /\ Running(r, u)')
                      => startingBest'[r][u] = startingBest[r][u]
      ]_vars

\* C18: in an entangled run, the startingBest of a unit is the register
\* value loaded once, when the unit starts, over 1e6, and a unit that
\* starts after other units published lower scores observes them: the
\* unit that starts when the others have ended is given the least of the
\* register's first value and their scores.
C18_ObservesPublished ==
    (Entangled(1) /\ Running(1, LateUnit)) =>
        startingBest[1][LateUnit] =
            Descaled(ToInt32(MinNum({IntNum(InitialCell)} \cup published[1])))

\* C19: after a run is rejected, each of its units still goes to the end
\* of its script and has its event handled, and a call of
\* maybeUpdateShared that was or is made after the rejection stores into
\* the register as in a run that has not failed.
C19_UnitsRunOn ==
    /\ \A r \in Runs :
          (state[r] = "rejected")
              ~> (\A u \in Spawned(r) : pc[r][u] \in {"reported", "failed"})
    /\ [][\A r \in Runs : \A u \in UnitsOf(r) :
            (state[r] = "rejected" /\ pc[r][u] = "loaded" /\ pc'[r][u] # "loaded") =>
                /\ pc'[r][u] = "fn"
                /\ Register(r)' = IF LessThan(scaled[r][u], current[r][u])
                                  THEN ToInt32(scaled[r][u]) ELSE Register(r)
        ]_vars

\* The run was rejected with the failure of unit 1, the listener has
\* returned, and unit 2 is inside maybeUpdateShared with a score that is
\* lower than the one it loaded.
C19_Witness ==
    /\ state[1] = "rejected" /\ reason[1] = TaskError(1) /\ pc[1][1] = "failed"
    /\ pc[1][2] = "loaded" /\ LessThan(scaled[1][2], current[1][2])
    /\ current[1][2] = Register(1)

\* C20: a unit is never kept waiting by another: the read of the register
\* at its start is one step that it can take as soon as it is created; a
\* call of maybeUpdateShared is one step up to the load, which it can take
\* whenever it is in fn, and one more step, the test and the store, which
\* it can take whatever the other units have done since, and which ends
\* the call.
C20_NeverBlocked ==
    \A r \in Runs : \A u \in UnitsOf(r) :
        /\ pc[r][u] = "spawned" => ENABLED (Start(r, u) /\ pc'[r][u] = "fn")
        /\ pc[r][u] = "fn" =>
              \A s \in Scores :
                  ENABLED (Load(r, u, s) /\
                           pc'[r][u] = IF sharedArray(r, u) = NULL THEN "fn" ELSE "loaded")
        /\ pc[r][u] = "loaded" => ENABLED (Store(r, u) /\ pc'[r][u] = "fn")

\* Unit 1 is between its load and its store, and the register is no
\* longer what it loaded: unit 2 has stored in between.
C20_Witness ==
    /\ pc[1][1] = "loaded" /\ current[1][1] # Register(1)
    /\ pc[1][2] \in {"fn", "posted", "threw"}

\* C21: the step of maybeUpdateShared that writes the register leaves in
\* it the scaled candidate that passed the test scaled < current, also
\* when that candidate is outside the signed 32-bit range.
C21_StoreKeepsValue ==
    [][\A r \in Runs : \A u \in UnitsOf(r) :
            (pc[r][u] = "loaded" /\ pc'[r][u] = "fn"
                /\ LessThan(scaled[r][u], current[r][u])) =>
                    IntNum(Register(r)') = scaled[r][u]
      ]_vars

\* C22: a call with count 0 creates no unit, and its promise stays
\* pending: it is never fulfilled, with an empty list or any other, and
\* never rejected.
C22_CountZeroNeverSettles ==
    \A r \in Runs :
        (Launched(r) /\ count[r] = 0) =>
            /\ state[r] = "pending"
            /\ Spawned(r) = {} /\ i[r] = 0
            /\ spawning # r

\* parallel(fn, 0) has returned its promise.
C22_Witness ==
    \E r \in Runs :
        /\ Launched(r) /\ count[r] = 0 /\ spawning = 0
        /\ value[r] = << >> /\ reason[r] = NoError

\* C23: completed is the length of results and is at most count, and a
\* fulfilled run has completed = count; so it is in the states after a
\* message that was handled when the run was rejected already.
C23_CompletedIsLength ==
    \A r \in Runs :
        /\ completed[r] = Len(results[r])
        /\ completed[r] <= count[r]
        /\ state[r] = "fulfilled" => completed[r] = count[r] /\ Len(value[r]) = completed[r]

\* The second new Worker threw, which rejected the run; the message of the
\* first unit was handled after that, the listeners running only when
\* the executor has ended.
C23_Witness ==
    \E r \in Runs :
        /\ state[r] = "rejected" /\ reason[r] = SpawnError(2)
        /\ pc[r][1] = "reported" /\ completed[r] = 1 /\ count[r] = 2

\* The bits of a NanoTensor conversion.
BitsBy(by) == IF by = "tensor.js" THEN 128 ELSE 256

\* C24: for either NanoTensor and a text of at most 16 code units with no
\* white space at either end, the tensor has as many entries as bits,
\* each 0 or 1, and the text made from the tensor is the text converted.
C24_TensorRoundTrip ==
    (conv.by \in {"tensor.js", "QunTime.js"} /\ Len(text) <= 16 /\ NoOuterSpace(text)) =>
        /\ conv.step >= 1 =>
              /\ Len(encoded) = BitsBy(conv.by)
              /\ \A k \in 1..Len(encoded) : encoded[k] \in {0, 1}
        /\ conv.step = 2 => decoded = text

\* C25: for a text that is not empty, is made of characters of the Morse
\* table and of spaces, and does not begin or end with a space, the
\* reverse direction applied to the code of the text gives the text.
C25_MorseRoundTrip ==
    (conv = [by |-> "encrypt.js", step |-> 2]
        /\ text # << >>
        /\ (\A k \in 1..Len(text) : text[k] \in MorseKeys \cup {SPACE})
        /\ text[1] # SPACE /\ text[Len(text)] # SPACE) =>
            decoded = text

\* "A 0" was encoded as ".-  -----", with two spaces, and decoded again.
C25_Witness ==
    /\ conv = [by |-> "encrypt.js", step |-> 2]
    /\ text = <<65, SPACE, 48>>
    /\ encoded = <<DOT, DASH, SPACE, SPACE, DASH, DASH, DASH, DASH, DASH>>
    /\ decoded = text

====
